---- MODULE Spec2Model ----
(***************************************************************************)
(* A model of the interview engine of Interview_prep_model:                *)
(*   interview_logic.py  EnhancedInterviewEngine (session state machine,   *)
(*                       round question set builder, hybrid evaluation)    *)
(*   evaluation.py       Evaluator (answer policy, round score, feedback)  *)
(*   question_bank.py    LLMQuestionGenerator (synthesizer, fallbacks)     *)
(*   config.py           Config.ROUND_SETTINGS, Config.ROLE_TOPICS         *)
(*   app.py              the /start, /submit and /status handlers          *)
(*                                                                         *)
(* Conventions.  A Python str is a sequence of one-character strings.  A   *)
(* score (a float rounded to 2 decimals) is an integer number of           *)
(* hundredths of a percent: 70.0 is 7000, 33.33 is 3333.  The text of a    *)
(* generated question is a natural number (0 is the empty text), and its   *)
(* content hash is a many-to-one function of the text.  A dict whose keys  *)
(* are "round_<i>" and "total" is a function on 0..n, "total" being key 0. *)
(***************************************************************************)
EXTENDS Integers, Sequences, FiniteSets, TLC

VARIABLES
    active_sessions,    \* engine.active_sessions: session_id -> InterviewSession
    question_history,   \* engine.question_history: session_id -> list of hashes
    inflight,           \* /submit requests received and not yet run by the event loop
    response,           \* what the last handler returned to its caller
    call,               \* history: the last request served, and what the collaborator
                        \* answered while it was served
    race_log            \* history: per session, what each recorded submission had seen

vars == <<active_sessions, question_history, inflight, response, call, race_log>>

(***************************************************************************)
(* Bounds of the model.                                                    *)
(***************************************************************************)
MaxSessions == 1
MaxRecords == 4
MaxInflight == 2
MaxSessionsMany == 2
MaxRecordsMany == 3
HashSpace == 64

(***************************************************************************)
(* Python str operations used by the evaluator.                            *)
(***************************************************************************)
IsSpace(c) == c \in {" ", "\t", "\n"}

LowerChar(c) ==
    CASE c = "A" -> "a"
      [] c = "B" -> "b"
      [] c = "C" -> "c"
      [] c = "D" -> "d"
      [] OTHER -> c

Lower(s) == [i \in 1..Len(s) |-> LowerChar(s[i])]

RECURSIVE LStrip(_)
LStrip(s) == IF s # <<>> /\ IsSpace(Head(s)) THEN LStrip(Tail(s)) ELSE s

RECURSIVE RStrip(_)
RStrip(s) ==
    IF s # <<>> /\ IsSpace(s[Len(s)]) THEN RStrip(SubSeq(s, 1, Len(s) - 1)) ELSE s

Strip(s) == RStrip(LStrip(s))

RemoveWhitespace_EndsOnly(s) == Strip(s)

\* re.sub(r'\s+', '', s)
RemoveWhitespace(s) == SelectSeq(s, LAMBDA c : ~IsSpace(c))

\* str.split(): the maximal runs of non-whitespace characters, in order
RECURSIVE SplitFrom(_, _, _)
SplitFrom(s, i, word) ==
    IF i > Len(s)
    THEN IF word = <<>> THEN <<>> ELSE <<word>>
    ELSE IF IsSpace(s[i])
         THEN (IF word = <<>> THEN <<>> ELSE <<word>>) \o SplitFrom(s, i + 1, <<>>)
         ELSE SplitFrom(s, i + 1, Append(word, s[i]))

Split(s) == SplitFrom(s, 1, <<>>)

Prefix_Whole(seq, n) == SubSeq(seq, 1, Len(seq))

\* seq[:n]
Prefix(seq, n) == SubSeq(seq, 1, IF Len(seq) < n THEN Len(seq) ELSE n)

SeqToSet(seq) == {seq[i] : i \in 1..Len(seq)}

IsDigit(c) == c \in {"0", "1", "2", "3", "4", "5", "6", "7", "8", "9"}

DigitValue(c) ==
    CASE c = "0" -> 0 [] c = "1" -> 1 [] c = "2" -> 2 [] c = "3" -> 3
      [] c = "4" -> 4 [] c = "5" -> 5 [] c = "6" -> 6 [] c = "7" -> 7
      [] c = "8" -> 8 [] c = "9" -> 9

\* int(s) succeeds on an optional sign followed by digits
IntParses(s) ==
    LET body == IF s # <<>> /\ s[1] \in {"+", "-"} THEN Tail(s) ELSE s
    IN  body # <<>> /\ \A i \in 1..Len(body) : IsDigit(body[i])

RECURSIVE DigitsValue(_, _)
DigitsValue(s, acc) ==
    IF s = <<>> THEN acc ELSE DigitsValue(Tail(s), 10 * acc + DigitValue(Head(s)))

IntValue(s) ==
    IF s[1] = "-" THEN 0 - DigitsValue(Tail(s), 0)
    ELSE IF s[1] = "+" THEN DigitsValue(Tail(s), 0)
    ELSE DigitsValue(s, 0)

(***************************************************************************)
(* models.py: QuestionType.                                                *)
(***************************************************************************)
QuestionType ==
    {"mcq", "one_word", "theory", "code_snippet", "output_prediction",
     "fill_blank", "coding_problem"}

(***************************************************************************)
(* evaluation.py: Evaluator.evaluate_answer.                               *)
(***************************************************************************)
KeywordThresholdNum == 6
KeywordThresholdDen == 10
KeyTermCount == 5
CodingMinLenLocal == 20

EvaluateAnswer(q, user_answer) ==
    IF q.type \in {"mcq", "one_word", "fill_blank"}
    THEN Lower(Strip(user_answer)) = Lower(q.correct_answer)
    ELSE IF q.type = "output_prediction"
    THEN RemoveWhitespace(user_answer) = RemoveWhitespace(q.correct_answer)
    ELSE IF q.type \in {"theory", "code_snippet"}
    THEN LET key_terms == SeqToSet(Prefix(Split(Lower(q.correct_answer)), KeyTermCount))
             user_terms == SeqToSet(Split(Lower(user_answer)))
             matches == Cardinality(key_terms \cap user_terms)
         IN  IF key_terms # {}
             THEN matches * KeywordThresholdDen
                      >= KeywordThresholdNum * Cardinality(key_terms)
             ELSE FALSE
    ELSE Len(Strip(user_answer)) > CodingMinLenLocal

(***************************************************************************)
(* interview_logic.py: _evaluate_with_llm_if_needed.  reply is what        *)
(* _call_deepseek returned for the scoring prompt: the collaborator's text,*)
(* or the empty string after any transport error, timeout or bad status.   *)
(***************************************************************************)
LLMPassScore == 70
CodingMinLen == 30

EvaluateWithLLM_NoFallback(q, user_answer, reply) ==
    IF q.type \in {"mcq", "one_word", "fill_blank", "output_prediction"}
    THEN EvaluateAnswer(q, user_answer)
    ELSE IF q.type \in {"theory", "code_snippet"}
    THEN IntParses(Strip(reply)) /\ IntValue(Strip(reply)) >= LLMPassScore
    ELSE Len(Strip(user_answer)) > CodingMinLen

EvaluateWithLLM(q, user_answer, reply) ==
    IF q.type \in {"mcq", "one_word", "fill_blank", "output_prediction"}
    THEN EvaluateAnswer(q, user_answer)
    ELSE IF q.type \in {"theory", "code_snippet"}
    THEN IF IntParses(Strip(reply))
         THEN IntValue(Strip(reply)) >= LLMPassScore
         ELSE EvaluateAnswer(q, user_answer)
    ELSE Len(Strip(user_answer)) > CodingMinLen

(***************************************************************************)
(* evaluation.py: Evaluator.calculate_round_score.                         *)
(***************************************************************************)
\* round(num / den, 0) on exact values, ties to even as Python's round
RoundHalfEven(num, den) ==
    LET q == num \div den
        r == num % den
    IN  IF 2 * r < den THEN q
        ELSE IF 2 * r > den THEN q + 1
        ELSE IF q % 2 = 0 THEN q ELSE q + 1

CorrectCount(questions) ==
    Cardinality({i \in 1..Len(questions) : questions[i].is_correct})

RoundScore_Truncated(correct_count, total) ==
    IF total > 0 THEN (10000 * correct_count) \div total ELSE 0

\* (correct_count / total) * 100 if total > 0 else 0, then round(score, 2)
RoundScore(correct_count, total) ==
    IF total > 0 THEN RoundHalfEven(10000 * correct_count, total) ELSE 0

\* the keys of topic_performance in insertion order: a question adds its
\* topic as a key when no earlier question has that topic
TopicOrder(questions) ==
    LET firsts == {i \in 1..Len(questions) :
                      \A j \in 1..(i - 1) : questions[j].topic # questions[i].topic}
        Nth(k) == CHOOSE i \in firsts : Cardinality({j \in firsts : j < i}) = k - 1
    IN  [k \in 1..Cardinality(firsts) |-> questions[Nth(k)].topic]

TopicTotal(questions, topic) ==
    Cardinality({i \in 1..Len(questions) : questions[i].topic = topic})

TopicCorrect(questions, topic) ==
    Cardinality({i \in 1..Len(questions) :
                    questions[i].topic = topic /\ questions[i].is_correct})

\* topic_scores[a] < topic_scores[b], each being (correct / total) * 100
AccuracyLess(questions, a, b) ==
    TopicCorrect(questions, a) * TopicTotal(questions, b)
        < TopicCorrect(questions, b) * TopicTotal(questions, a)

AccuracyBelow_Inclusive(questions, topic, pct) ==
    100 * TopicCorrect(questions, topic) <= pct * TopicTotal(questions, topic)

\* topic_scores[topic] < pct
AccuracyBelow(questions, topic, pct) ==
    100 * TopicCorrect(questions, topic) < pct * TopicTotal(questions, topic)

\* sorted(..., key=score): stable, ascending
RECURSIVE InsertAscending(_, _, _)
InsertAscending(sorted, t, questions) ==
    IF sorted = <<>> THEN <<t>>
    ELSE IF AccuracyLess(questions, t, Head(sorted))
         THEN <<t>> \o sorted
         ELSE <<Head(sorted)>> \o InsertAscending(Tail(sorted), t, questions)

RECURSIVE InsertDescending_TiesReversed(_, _, _)
InsertDescending_TiesReversed(sorted, t, questions) ==
    IF sorted = <<>> THEN <<t>>
    ELSE IF ~AccuracyLess(questions, t, Head(sorted))
         THEN <<t>> \o sorted
         ELSE <<Head(sorted)>> \o InsertDescending_TiesReversed(Tail(sorted), t, questions)

\* sorted(..., key=score, reverse=True): stable, descending
RECURSIVE InsertDescending(_, _, _)
InsertDescending(sorted, t, questions) ==
    IF sorted = <<>> THEN <<t>>
    ELSE IF AccuracyLess(questions, Head(sorted), t)
         THEN <<t>> \o sorted
         ELSE <<Head(sorted)>> \o InsertDescending(Tail(sorted), t, questions)

RECURSIVE SortAscending(_, _)
SortAscending(topics, questions) ==
    IF topics = <<>> THEN <<>>
    ELSE InsertAscending(SortAscending(SubSeq(topics, 1, Len(topics) - 1), questions),
                         topics[Len(topics)], questions)

RECURSIVE SortDescending(_, _)
SortDescending(topics, questions) ==
    IF topics = <<>> THEN <<>>
    ELSE InsertDescending(SortDescending(SubSeq(topics, 1, Len(topics) - 1), questions),
                          topics[Len(topics)], questions)

TopTopics == 3

StrongestTopics(questions) ==
    Prefix(SortDescending(TopicOrder(questions), questions), TopTopics)

WeakestTopics(questions) ==
    Prefix(SortAscending(TopicOrder(questions), questions), TopTopics)

CalculateRoundScore(questions) ==
    [score            |-> RoundScore(CorrectCount(questions), Len(questions)),
     correct_count    |-> CorrectCount(questions),
     total            |-> Len(questions),
     strongest_topics |-> StrongestTopics(questions),
     weakest_topics   |-> WeakestTopics(questions)]

(***************************************************************************)
(* evaluation.py: Evaluator.generate_feedback.  The AnswerReview list is   *)
(* left out: models.Feedback has no field for it.                          *)
(***************************************************************************)
FundamentalsBelow == 50
PracticeBelow == 70
TotalKey == 0

RECURSIVE FailureRecommendations(_, _)
FailureRecommendations(weakest, questions) ==
    IF weakest = <<>> THEN <<>>
    ELSE LET topic == Head(weakest)
             rest == FailureRecommendations(Tail(weakest), questions)
         IN  IF AccuracyBelow(questions, topic, FundamentalsBelow)
             THEN <<[line |-> "focus_on_fundamentals", topic |-> topic]>> \o rest
             ELSE IF AccuracyBelow(questions, topic, PracticeBelow)
             THEN <<[line |-> "practice_more_problems", topic |-> topic]>> \o rest
             ELSE rest

\* the questions of every round, in order
RECURSIVE AllQuestions(_)
AllQuestions(round_results) ==
    IF round_results = <<>> THEN <<>>
    ELSE Head(round_results).questions \o AllQuestions(Tail(round_results))

FailureFeedback_WholeHistory(round_results, failed_round) ==
    LET failed_result == round_results[Len(round_results)]
        questions == AllQuestions(round_results)
    IN  [score            |-> failed_result.score,
         strongest_topics |-> StrongestTopics(questions),
         weakest_topics   |-> WeakestTopics(questions),
         recommendations  |-> FailureRecommendations(WeakestTopics(questions), questions),
         time_spent       |-> [k \in {failed_round} |-> failed_result.time_spent]]

\* generate_feedback(round_results, failed_round=failed_round)
FailureFeedback(round_results, failed_round) ==
    LET failed_result == round_results[Len(round_results)]
        questions == failed_result.questions
    IN  [score            |-> failed_result.score,
         strongest_topics |-> StrongestTopics(questions),
         weakest_topics   |-> WeakestTopics(questions),
         recommendations  |-> FailureRecommendations(WeakestTopics(questions), questions),
         time_spent       |-> [k \in {failed_round} |-> failed_result.time_spent]]

RECURSIVE WeightedScoreSum(_)
WeightedScoreSum(round_results) ==
    IF round_results = <<>> THEN 0
    ELSE Head(round_results).score * Head(round_results).total_questions
             + WeightedScoreSum(Tail(round_results))

RECURSIVE TotalQuestions(_)
TotalQuestions(round_results) ==
    IF round_results = <<>> THEN 0
    ELSE Head(round_results).total_questions + TotalQuestions(Tail(round_results))

TotalTimeSpent_LastOnly(round_results) ==
    round_results[Len(round_results)].time_spent

\* sum(r.time_spent for r in round_results)
RECURSIVE TotalTimeSpent(_)
TotalTimeSpent(round_results) ==
    IF round_results = <<>> THEN 0
    ELSE Head(round_results).time_spent + TotalTimeSpent(Tail(round_results))

\* total_score / total_questions raises ZeroDivisionError on an empty total
CompletionFeedbackRaises(round_results) == TotalQuestions(round_results) = 0

OverallScore_PlainMean(round_results) ==
    RoundHalfEven(
        WeightedScoreSum([i \in 1..Len(round_results) |->
                             [round_results[i] EXCEPT !.total_questions = 1]]),
        Len(round_results))

\* lines 118-120 and 159: round(total_score / total_questions, 2)
OverallScore(round_results) ==
    RoundHalfEven(WeightedScoreSum(round_results), TotalQuestions(round_results))

\* generate_feedback(round_results)
CompletionFeedback(round_results) ==
    LET questions == AllQuestions(round_results)
        strongest == StrongestTopics(questions)
        weakest == WeakestTopics(questions)
    IN  [score            |-> OverallScore(round_results),
         strongest_topics |-> strongest,
         weakest_topics   |-> weakest,
         recommendations  |->
             <<[line |-> "your_strongest_area_is",
                topic |-> IF strongest # <<>> THEN strongest[1] ELSE "multiple areas"],
               [line |-> "consider_practicing",
                topic |-> IF weakest # <<>> THEN weakest[1] ELSE "various topics"]>>,
         time_spent       |->
             [k \in 0..Len(round_results) |->
                 IF k = TotalKey THEN TotalTimeSpent(round_results)
                 ELSE round_results[k].time_spent]]

(***************************************************************************)
(* config.py: Config.                                                      *)
(***************************************************************************)
ROUND_SETTINGS_LastRoundGraded ==
    (1 :> [total_questions |-> 20, passing_score |-> 70, time_limit |-> 600]) @@
    (2 :> [total_questions |-> 15, passing_score |-> 70, time_limit |-> 900]) @@
    (3 :> [total_questions |-> 3, passing_score |-> 70, time_limit |-> 1800])

ROUND_SETTINGS ==
    (1 :> [total_questions |-> 20, passing_score |-> 70, time_limit |-> 600]) @@
    (2 :> [total_questions |-> 15, passing_score |-> 70, time_limit |-> 900]) @@
    (3 :> [total_questions |-> 3, passing_score |-> 0, time_limit |-> 1800])

ROLE_TOPICS ==
    [role \in {"Software Engineer", "Data Scientist"} |->
        IF role = "Software Engineer"
        THEN [level \in {"entry", "mid", "senior"} |->
                 CASE level = "entry" ->
                        <<"Python Basics", "OOP Concepts", "Data Structures",
                          "Algorithms", "SQL Fundamentals", "Git & Version Control",
                          "Debugging", "Testing Basics", "Web Basics">>
                   [] level = "mid" ->
                        <<"System Design", "API Design", "Testing Strategies",
                          "Concurrency", "Database Design", "Cloud Basics",
                          "Microservices", "Performance Optimization">>
                   [] level = "senior" ->
                        <<"Software Architecture", "Scalability", "Distributed Systems",
                          "Cloud Architecture", "Technical Leadership", "Mentoring",
                          "Code Review Best Practices", "DevOps", "Security">>]
        ELSE [level \in {"entry", "mid", "senior"} |->
                 CASE level = "entry" ->
                        <<"Python for Data Science", "Statistics Fundamentals",
                          "Pandas & NumPy", "Data Visualization", "ML Basics",
                          "SQL for Analysis", "Data Cleaning">>
                   [] level = "mid" ->
                        <<"Feature Engineering", "Model Evaluation",
                          "Deep Learning Basics", "SQL Advanced", "A/B Testing",
                          "Time Series Analysis", "Model Deployment">>
                   [] level = "senior" ->
                        <<"MLOps", "Experiment Design", "Big Data Technologies",
                          "Production ML Systems", "Team Leadership",
                          "Stakeholder Management", "Advanced Statistics">>]]

\* self.config.ROLE_TOPICS.get(role, {}).get(level, ["General"])
TopicsFor(role, level) ==
    IF role \in DOMAIN ROLE_TOPICS /\ level \in DOMAIN ROLE_TOPICS[role]
    THEN ROLE_TOPICS[role][level]
    ELSE <<"General">>

MeetsPassingScore_Strict(score, round_num) ==
    score > 100 * ROUND_SETTINGS[round_num].passing_score

\* score >= ROUND_SETTINGS[round]["passing_score"], the score being in hundredths
MeetsPassingScore(score, round_num) ==
    score >= 100 * ROUND_SETTINGS[round_num].passing_score

(***************************************************************************)
(* question_bank.py: LLMQuestionGenerator.  Question texts are numbers:    *)
(* 0 is the empty string, 1 the default code-snippet frame, 2..6 and       *)
(* 10 + 2 * k, 11 + 2 * k (k a topic's index) the fallback templates, and  *)
(* the texts parsed out of a collaborator reply the numbers from           *)
(* FirstReplyText on.                                                      *)
(***************************************************************************)
EmptyText == 0
DefaultSnippetText == 1

AllTopics ==
    <<"General">> \o
    ROLE_TOPICS["Software Engineer"]["entry"] \o ROLE_TOPICS["Software Engineer"]["mid"] \o
    ROLE_TOPICS["Software Engineer"]["senior"] \o
    ROLE_TOPICS["Data Scientist"]["entry"] \o ROLE_TOPICS["Data Scientist"]["mid"] \o
    ROLE_TOPICS["Data Scientist"]["senior"]

TopicIndex(topic) == CHOOSE i \in 1..Len(AllTopics) : AllTopics[i] = topic

\* the first number that is no template's text
FirstReplyText == 12 + 2 * Len(AllTopics)

\* the text of each _create_fallback_* template
FallbackText(q_type, topic) ==
    CASE q_type = "mcq" -> IF topic = "SQL" THEN 3 ELSE 2
      [] q_type = "code_snippet" -> 4
      [] q_type = "fill_blank" -> 5
      [] q_type = "coding_problem" -> 6
      [] q_type = "one_word" -> 10 + 2 * TopicIndex(topic)
      [] q_type = "theory" -> 11 + 2 * TopicIndex(topic)

CreateFallback(q_type, topic) ==
    [id_prefix |-> "fb", type |-> q_type, text |-> FallbackText(q_type, topic),
     topic |-> topic, padding |-> FALSE]

(***************************************************************************)
(* _call_deepseek and the _parse_*_response functions.  A reply is         *)
(*   [kind |-> "failed"]  a transport error, timeout or bad status, which  *)
(*                        _call_deepseek turns into the empty string,      *)
(*   [kind |-> "null"]    a 200 reply whose "response" is no string, on    *)
(*                        which every parser raises and is caught,         *)
(*   [kind |-> "text", question |-> n]  a reply holding question text n.   *)
(***************************************************************************)
\* _call_deepseek's return value
CallDeepseek(reply) ==
    IF reply.kind = "failed" THEN [kind |-> "text", question |-> EmptyText] ELSE reply

\* _parse_output_prediction_response is _parse_code_snippet_response
ParsedType(q_type) == IF q_type = "output_prediction" THEN "code_snippet" ELSE q_type

\* the "text" a parser builds from a string reply
ParsedText(q_type, returned) ==
    IF q_type \in {"code_snippet", "output_prediction"} /\ returned.question = EmptyText
    THEN DefaultSnippetText
    ELSE returned.question

\* generate_question(round_num, role, level, topic), its random choices given
GenerateQuestion(q_type, topic, reply) ==
    LET returned == CallDeepseek(reply)
    IN  IF returned.kind = "null"
        THEN CreateFallback(ParsedType(q_type), topic)
        ELSE [id_prefix |-> ParsedType(q_type), type |-> ParsedType(q_type),
              text |-> ParsedText(q_type, returned),
              topic |-> topic, padding |-> FALSE]

\* the question types generate_question and _generate_fallback_question draw from
RoundTypes(round_num) ==
    CASE round_num = 1 -> <<"mcq", "one_word">>
      [] round_num = 2 -> <<"theory", "code_snippet", "output_prediction", "fill_blank">>
      [] OTHER -> <<"coding_problem">>

(***************************************************************************)
(* interview_logic.py: _get_question_hash.  md5(text)[:10] is modelled as  *)
(* a function onto HashSpace values, so that distinct texts may collide.   *)
(***************************************************************************)
QuestionHash(text) == text % HashSpace

(***************************************************************************)
(* An oracle fixes, for one run of the round question set builder, every   *)
(* random.choice and every collaborator reply as a function of the call    *)
(* number n = 0, 1, 2, ...                                                 *)
(***************************************************************************)
OracleReply(o, n) ==
    CASE o.kind = "down"  -> [kind |-> "failed"]
      [] o.kind = "null"  -> [kind |-> "null"]
      [] o.kind = "fresh" -> [kind |-> "text", question |-> o.base + n]
      [] o.kind = "stuck" -> [kind |-> "text", question |-> o.base]
      [] o.kind = "flaky" -> IF n % 2 = 0 THEN [kind |-> "failed"]
                             ELSE [kind |-> "text", question |-> o.base + n]

\* random.choice(seq) at call n
OracleChoice(seq, n) == seq[(n % Len(seq)) + 1]

(***************************************************************************)
(* interview_logic.py: _generate_fallback_question.                        *)
(***************************************************************************)
GenerateFallbackQuestion(round_num, role, level, o, n) ==
    LET topic == OracleChoice(TopicsFor(role, level), n)
        q_type == OracleChoice(RoundTypes(round_num), n)
    IN  [CreateFallback(ParsedType(q_type), topic) EXCEPT !.padding = TRUE]

(***************************************************************************)
(* interview_logic.py: _generate_unique_round_questions.                   *)
(***************************************************************************)
AttemptFactor == 3

MaxAttempts_PerQuestion(round_num) ==
    ROUND_SETTINGS[round_num].total_questions * AttemptFactor
        * ROUND_SETTINGS[round_num].total_questions

MaxAttempts(round_num) == ROUND_SETTINGS[round_num].total_questions * AttemptFactor

IsNewHash_Unchecked(q_hash, hashes) == TRUE

\* q_hash not in self.question_history[session_id]
IsNewHash(q_hash, hashes) == q_hash \notin SeqToSet(hashes)

LoopPass_CountsAcceptedOnly(round_num, role, level, o, st) ==
    IF Len(st.questions) < ROUND_SETTINGS[round_num].total_questions
       /\ st.attempts < MaxAttempts(round_num)
    THEN LET topic == OracleChoice(TopicsFor(role, level), st.attempts)
             q_type == OracleChoice(RoundTypes(round_num), st.attempts)
             question == GenerateQuestion(q_type, topic, OracleReply(o, st.attempts))
             q_hash == QuestionHash(question.text)
         IN  IF IsNewHash(q_hash, st.hashes)
             THEN [questions |-> Append(st.questions, question),
                   hashes    |-> Append(st.hashes, q_hash),
                   attempts  |-> st.attempts + 1]
             ELSE st
    ELSE st

\* one pass of the while loop from the state st = (questions, hashes,
\* attempts): the body when the loop condition holds, else the state as it is
LoopPass(round_num, role, level, o, st) ==
    IF Len(st.questions) < ROUND_SETTINGS[round_num].total_questions
       /\ st.attempts < MaxAttempts(round_num)
    THEN LET topic == OracleChoice(TopicsFor(role, level), st.attempts)
             q_type == OracleChoice(RoundTypes(round_num), st.attempts)
             question == GenerateQuestion(q_type, topic, OracleReply(o, st.attempts))
             q_hash == QuestionHash(question.text)
         IN  IF IsNewHash(q_hash, st.hashes)
             THEN [questions |-> Append(st.questions, question),
                   hashes    |-> Append(st.hashes, q_hash),
                   attempts  |-> st.attempts + 1]
             ELSE [st EXCEPT !.attempts = st.attempts + 1]
    ELSE st

\* n passes in a row, halved so that the evaluation stays shallow
RECURSIVE LoopPasses(_, _, _, _, _, _)
LoopPasses(round_num, role, level, o, st, n) ==
    IF n = 0 THEN st
    ELSE IF n = 1 THEN LoopPass(round_num, role, level, o, st)
    ELSE LET half == LoopPasses(round_num, role, level, o, st, n \div 2)
         IN  IF half.attempts >= st.attempts
             THEN LoopPasses(round_num, role, level, o, half, n - (n \div 2))
             ELSE half

\* the while loop: it ends within max_attempts passes, and further passes
\* leave the state as it is
UniqueLoop(round_num, role, level, o, questions, hashes, attempts) ==
    LoopPasses(round_num, role, level, o,
               [questions |-> questions, hashes |-> hashes, attempts |-> attempts],
               MaxAttempts(round_num))

PaddingNeeded_OneShort(total_questions, questions) ==
    total_questions - Len(questions) - 1

\* needed = total_questions - len(questions)
PaddingNeeded(total_questions, questions) == total_questions - Len(questions)

\* the padding loop
PadQuestions(round_num, role, level, o, questions) ==
    LET total_questions == ROUND_SETTINGS[round_num].total_questions
    IN  IF Len(questions) < total_questions
        THEN questions \o
             [i \in 1..PaddingNeeded(total_questions, questions) |->
                 GenerateFallbackQuestion(round_num, role, level, o, i - 1)]
        ELSE questions

\* self.config.ROUND_SETTINGS[round_num] raises KeyError
RoundLookupRaises(round_num) == round_num \notin DOMAIN ROUND_SETTINGS

\* returns the question list, the session's new hash list, and the calls made
GenerateUniqueRoundQuestions(round_num, role, level, hashes, o) ==
    LET looped == UniqueLoop(round_num, role, level, o, <<>>, hashes, 0)
    IN  [questions |-> PadQuestions(round_num, role, level, o, looped.questions),
         hashes    |-> looped.hashes,
         attempts  |-> looped.attempts]

(***************************************************************************)
(* models.py: InterviewSession, Question, RoundResult.                     *)
(***************************************************************************)
\* Optional[str] = None in app.Answer
None == "<None>"

NewSession(role, level) ==
    [target_role |-> role, experience_level |-> level, current_round |-> 1,
     completed_rounds |-> <<>>, is_complete |-> FALSE]

\* Question(...) raises ValidationError: type is no QuestionType, or topic is
\* None (q_data.get("topic", "Unknown") returns the None that Answer.dict() holds)
QuestionRaises_Never(q_data) == FALSE

QuestionRaises(q_data) == q_data.type \notin QuestionType \/ q_data.topic = None

\* the answers whose verdict is asked of the collaborator
Delegated(answers) ==
    {i \in 1..Len(answers) : answers[i].type \in {"theory", "code_snippet"}}

(***************************************************************************)
(* interview_logic.py: submit_round, for a known session.  replies gives   *)
(* what _call_deepseek returns for each delegated answer, o the oracle of  *)
(* the next round's builder.  The result is the session and hash list      *)
(* after the call and what the /submit handler of app.py returns (with the *)
(* session id the request named).                                          *)
(***************************************************************************)
EvaluatedQuestions(answers, replies) ==
    [i \in 1..Len(answers) |->
        [type |-> answers[i].type, topic |-> answers[i].topic,
         correct_answer |-> answers[i].correct_answer,
         user_answer |-> answers[i].user_answer,
         is_correct |-> EvaluateWithLLM(answers[i], answers[i].user_answer,
                                        IF i \in DOMAIN replies THEN replies[i] ELSE <<>>)]]

MakeRoundResult(current_round, questions, time_spent) ==
    LET results == CalculateRoundScore(questions)
    IN  [round_number |-> current_round,
         score |-> results.score,
         total_questions |-> Len(questions),
         correct_answers |-> results.correct_count,
         time_spent |-> time_spent,
         questions |-> questions,
         passed |-> MeetsPassingScore(results.score, current_round)]

\* _generate_llm_feedback: a fixed sentence, or whatever the collaborator says
DetailedAnalysis(questions) ==
    IF \A i \in 1..Len(questions) : questions[i].is_correct
    THEN "excellent" ELSE "collaborator text"

LastRound == 3

IsLastRound_Never(current_round) == FALSE

\* line 179: current_round == 3
IsLastRound(current_round) == current_round = LastRound

\* line 162: session.is_complete = True
FailSession(session) == [session EXCEPT !.is_complete = TRUE]

CompleteSession_FlagNotSet(session) == session

\* line 180: session.is_complete = True
CompleteSession(session) == [session EXCEPT !.is_complete = TRUE]

AdvanceRound_ClearsFlag(session) ==
    [session EXCEPT !.current_round = @ + 1, !.is_complete = FALSE]

AdvanceRound_SkipsOne(session) == [session EXCEPT !.current_round = @ + 2]

\* line 193: session.current_round += 1
AdvanceRound(session) == [session EXCEPT !.current_round = @ + 1]

NextRoundResponse_ScoreOfFirstRound(session_id, moved, round_result, built) ==
    [kind |-> "next_round", session_id |-> session_id,
     current_round |-> moved.current_round,
     previous_score |-> moved.completed_rounds[1].score,
     questions |-> built.questions,
     attempts |-> built.attempts]

\* lines 203-209: the result of a passed round 1 or 2
NextRoundResponse(session_id, moved, round_result, built) ==
    [kind |-> "next_round", session_id |-> session_id,
     current_round |-> moved.current_round,
     previous_score |-> round_result.score,
     questions |-> built.questions,
     attempts |-> built.attempts]

SubmitRoundKnown(session_id, session, hashes, answers, time_spent, replies, o) ==
    LET current_round == session.current_round
    IN  IF \/ \E i \in 1..Len(answers) : QuestionRaises(answers[i])
           \/ RoundLookupRaises(current_round)
        THEN \* the exception leaves submit_round before line 158; app.py answers 500
             [session |-> session, hashes |-> hashes, appended |-> FALSE,
              response |-> [kind |-> "http_500", session_id |-> session_id]]
        ELSE
        LET questions == EvaluatedQuestions(answers, replies)
            round_result == MakeRoundResult(current_round, questions, time_spent)
            appended == [session EXCEPT
                            !.completed_rounds = Append(@, round_result)]
        IN  IF ~round_result.passed
            THEN LET failed == FailSession(appended)
                 IN  [session |-> failed, hashes |-> hashes, appended |-> TRUE,
                      response |->
                          [kind |-> "failed", session_id |-> session_id,
                           round |-> current_round,
                           score |-> round_result.score,
                           passing_score |->
                               100 * ROUND_SETTINGS[current_round].passing_score,
                           feedback |-> FailureFeedback(failed.completed_rounds,
                                                        current_round),
                           detailed_analysis |-> DetailedAnalysis(questions)]]
            ELSE IF IsLastRound(current_round)
            THEN LET done == CompleteSession(appended)
                 IN  [session |-> done, hashes |-> hashes, appended |-> TRUE,
                      response |->
                          IF CompletionFeedbackRaises(done.completed_rounds)
                          THEN [kind |-> "http_500", session_id |-> session_id]
                          ELSE [kind |-> "completed", session_id |-> session_id,
                                round |-> current_round,
                                score |-> round_result.score,
                                feedback |-> CompletionFeedback(done.completed_rounds),
                                detailed_analysis |-> DetailedAnalysis(questions)]]
            ELSE LET moved == AdvanceRound(appended)
                 IN  IF RoundLookupRaises(moved.current_round)
                     THEN [session |-> moved, hashes |-> hashes, appended |-> TRUE,
                           response |-> [kind |-> "http_500", session_id |-> session_id]]
                     ELSE
                     LET built == GenerateUniqueRoundQuestions(
                                      moved.current_round, moved.target_role,
                                      moved.experience_level, hashes, o)
                     IN  [session |-> moved, hashes |-> built.hashes, appended |-> TRUE,
                          response |-> NextRoundResponse(session_id, moved,
                                                         round_result, built)]

(***************************************************************************)
(* The state after construction (interview_logic.py: __init__): no session.*)
(***************************************************************************)
\* the ids requests name: those start can return, and one it never returns
SessionIds == 1..(MaxSessions + 1)

NoSessions == [sid \in {} |-> 0]

Init ==
    /\ active_sessions = NoSessions
    /\ question_history = NoSessions
    /\ inflight = {}
    /\ response = [kind |-> "none", session_id |-> 0]
    /\ call = [op |-> "none"]
    /\ race_log = NoSessions

FreshSessionId_Reused == CHOOSE id \in SessionIds : TRUE

\* str(uuid.uuid4()): an id no session has
FreshSessionId == Cardinality(DOMAIN active_sessions) + 1

(***************************************************************************)
(* interview_logic.py: start_interview, behind POST /start.                *)
(***************************************************************************)
StoreSession_Evicting(sessions, session_id, session) == session_id :> session

\* line 36: self.active_sessions[session_id] = session
StoreSession(sessions, session_id, session) == (session_id :> session) @@ sessions

StartInterview(role, level, o) ==
    LET session_id == FreshSessionId
        built == GenerateUniqueRoundQuestions(1, role, level, <<>>, o)
    IN  /\ active_sessions' = StoreSession(active_sessions, session_id,
                                           NewSession(role, level))
        /\ question_history' = (session_id :> built.hashes) @@ question_history
        /\ race_log' = (session_id :> <<>>) @@ race_log
        /\ response' = [kind |-> "started", session_id |-> session_id,
                        current_round |-> 1,
                        total_questions |-> Len(built.questions),
                        questions |-> built.questions,
                        attempts |-> built.attempts]

(***************************************************************************)
(* interview_logic.py: submit_round, behind POST /submit.  seen is the     *)
(* number of recorded rounds the session had when the request was sent.    *)
(***************************************************************************)
SubmitUnknown_CreatesSession(session_id) ==
    /\ response' = [kind |-> "not_found", session_id |-> session_id]
    /\ active_sessions' = (session_id :> NewSession("", "entry")) @@ active_sessions
    /\ question_history' = (session_id :> <<>>) @@ question_history
    /\ race_log' = (session_id :> <<>>) @@ race_log

\* lines 115-116: return {"error": "Session not found"}
SubmitUnknown(session_id) ==
    /\ response' = [kind |-> "not_found", session_id |-> session_id]
    /\ UNCHANGED <<active_sessions, question_history, race_log>>

SeenHashes_AllSessions(session_id) ==
    LET RECURSIVE Gather(_)
        Gather(ids) == IF ids = {} THEN <<>>
                       ELSE LET id == CHOOSE x \in ids : \A y \in ids : x >= y
                            IN  Gather(ids \ {id}) \o question_history[id]
    IN  Gather(DOMAIN question_history \ {session_id}) \o question_history[session_id]

\* line 73: self.question_history[session_id]
SeenHashes(session_id) == question_history[session_id]

SubmitRound(session_id, seen, answers, time_spent, replies, o) ==
    IF session_id \notin DOMAIN active_sessions
    THEN SubmitUnknown(session_id)
    ELSE LET out == SubmitRoundKnown(session_id, active_sessions[session_id],
                                     SeenHashes(session_id),
                                     answers, time_spent, replies, o)
         IN  /\ active_sessions' = [active_sessions EXCEPT ![session_id] = out.session]
             /\ question_history' = [question_history EXCEPT ![session_id] = out.hashes]
             /\ race_log' = IF out.appended
                            THEN [race_log EXCEPT ![session_id] = Append(@, seen)]
                            ELSE race_log
             /\ response' = out.response

(***************************************************************************)
(* interview_logic.py: get_session_status, behind GET /status/{id}.        *)
(***************************************************************************)
StatusReport_FirstRound(session_id, session) ==
    [kind |-> "status", session_id |-> session_id,
     target_role |-> session.target_role,
     experience_level |-> session.experience_level,
     current_round |-> 1,
     is_complete |-> session.is_complete,
     completed_rounds |-> Len(session.completed_rounds)]

\* lines 289-297: the returned dict, start_time left out
StatusReport(session_id, session) ==
    [kind |-> "status", session_id |-> session_id,
     target_role |-> session.target_role,
     experience_level |-> session.experience_level,
     current_round |-> session.current_round,
     is_complete |-> session.is_complete,
     completed_rounds |-> Len(session.completed_rounds)]

GetSessionStatus(session_id) ==
    /\ response' =
           IF session_id \notin DOMAIN active_sessions
           THEN [kind |-> "not_found", session_id |-> session_id]
           ELSE StatusReport(session_id, active_sessions[session_id])
    /\ UNCHANGED <<active_sessions, question_history, race_log>>

(***************************************************************************)
(* The inputs the handlers are driven with.                                *)
(***************************************************************************)
Roles == {"Software Engineer"}

Levels == {"entry"}

\* the collaborator is down, or answers every call with a question not yet asked
Oracles ==
    {[kind |-> "down", base |-> 0], [kind |-> "fresh", base |-> FirstReplyText]}

\* collaborator replies to the 0-100 scoring prompt
LLMReplies == {<<>>, <<"7", "0", "\n">>, <<"6", "9">>, <<"y", "e", "s">>}

McqAnswer(topic, right) ==
    [type |-> "mcq", topic |-> topic, correct_answer |-> <<"B">>,
     user_answer |-> IF right THEN <<" ", "b">> ELSE <<"c">>]

\* the first 40% of a sheet is on topics[1], the next 30% on topics[2], the rest on topics[3]
BandTopic(topics, i, n) ==
    IF 10 * i <= 4 * n THEN topics[1] ELSE IF 10 * i <= 7 * n THEN topics[2] ELSE topics[3]

\* n multiple-choice answers, the first k of them right
UniformSheet(n, k, topics) ==
    [i \in 1..n |-> McqAnswer(BandTopic(topics, i, n), i <= k)]

LongAnswer == [i \in 1..(CodingMinLen + 1) |-> "x"]

\* scores 66.67 when the collaborator scores the theory answer below 70, and 100
\* when it scores it higher or gives no score (the key terms are all there)
MixedSheet ==
    <<[type |-> "theory", topic |-> "Algorithms",
       correct_answer |-> <<"a", " ", "b">>, user_answer |-> <<"B", " ", "a">>],
      [type |-> "output_prediction", topic |-> "Debugging",
       correct_answer |-> <<"a", " ", "b">>, user_answer |-> <<"a", "b", "\n">>],
      [type |-> "coding_problem", topic |-> "Algorithms",
       correct_answer |-> <<"d">>, user_answer |-> LongAnswer]>>

\* its second answer comes without a topic
InvalidSheet ==
    <<McqAnswer("Algorithms", TRUE),
      [type |-> "mcq", topic |-> None, correct_answer |-> <<"B">>, user_answer |-> <<"b">>]>>

EmptySheet == <<>>

\* scores exactly 70
BoundarySheet == UniformSheet(10, 7, <<"Python Basics", "OOP Concepts", "Data Structures">>)

\* the bodies of the /submit requests: the answers and the round's time_spent
Submissions ==
    {[answers |-> EmptySheet, time_spent |-> 20],
     [answers |-> BoundarySheet, time_spent |-> 45],
     [answers |-> MixedSheet, time_spent |-> 60],
     [answers |-> InvalidSheet, time_spent |-> 30]}

(***************************************************************************)
(* Specification Spec: the engine behind the event loop of app.py, every   *)
(* request handled as it arrives.                                          *)
(***************************************************************************)
\* of a served request, the collaborator behaviour that was consulted: the
\* scoring replies when the answers were evaluated to the end, the builder's
\* oracle when a question set was built
NoOracle == [kind |-> "none", base |-> 0]

Consulted(kind, replies, o) ==
    [replies |-> IF kind \in {"failed", "completed", "next_round"} THEN replies ELSE <<>>,
     o       |-> IF kind \in {"started", "next_round"} THEN o ELSE NoOracle]

StartCall(role, level, o) ==
    [op |-> "start", target_role |-> role, experience_level |-> level]
        @@ Consulted(response'.kind, <<>>, o)

\* the answers are part of the history once the session was found
SubmitCall(session_id, body, replies, o) ==
    [op |-> "submit", session_id |-> session_id,
     answers |-> IF response'.kind = "not_found" THEN <<>> ELSE body.answers]
        @@ Consulted(response'.kind, replies, o)

StatusCall(session_id) == [op |-> "status", session_id |-> session_id]

Start ==
    \E role \in Roles, level \in Levels, o \in Oracles :
        /\ Cardinality(DOMAIN active_sessions) < MaxSessions
        /\ StartInterview(role, level, o)
        /\ call' = StartCall(role, level, o)
        /\ UNCHANGED inflight

Submit ==
    \E session_id \in SessionIds, body \in Submissions, o \in Oracles :
        \E replies \in [Delegated(body.answers) -> LLMReplies] :
            /\ session_id \in DOMAIN active_sessions
                   => Len(active_sessions[session_id].completed_rounds) < MaxRecords
            /\ SubmitRound(session_id,
                           IF session_id \in DOMAIN active_sessions
                           THEN Len(active_sessions[session_id].completed_rounds) ELSE 0,
                           body.answers, body.time_spent, replies, o)
            /\ call' = SubmitCall(session_id, body, replies, o)
            /\ UNCHANGED inflight

Status ==
    \E session_id \in SessionIds :
        /\ GetSessionStatus(session_id)
        /\ call' = StatusCall(session_id)
        /\ UNCHANGED inflight

Next == Start \/ Submit \/ Status

Spec == Init /\ [][Next]_vars

(***************************************************************************)
(* Specification SpecRace: /submit requests in flight.  The handlers of    *)
(* app.py are coroutines that call the engine without awaiting, so the     *)
(* event loop runs each submit_round to its end before the next request;   *)
(* requests received meanwhile wait.  A request's body is drawn when its   *)
(* handler runs: no state depends on it before.                            *)
(***************************************************************************)
RaceSubmissions ==
    {[answers |-> EmptySheet, time_spent |-> 20],
     [answers |-> BoundarySheet, time_spent |-> 45]}

RaceOracles == {[kind |-> "down", base |-> 0]}

\* the server receives a /submit request naming a session the client was given
ReceiveSubmit ==
    \E session_id \in DOMAIN active_sessions :
        /\ Cardinality(inflight) < MaxInflight
        /\ Len(active_sessions[session_id].completed_rounds) + Cardinality(inflight)
               < MaxRecords
        /\ inflight' = inflight \cup
               {[n |-> CHOOSE n \in 1..MaxInflight : \A r \in inflight : r.n # n,
                 session_id |-> session_id,
                 seen |-> Len(active_sessions[session_id].completed_rounds)]}
        /\ UNCHANGED <<active_sessions, question_history, response, call, race_log>>

\* the event loop runs the handler of one waiting request
HandleSubmit ==
    \E request \in inflight, body \in RaceSubmissions, o \in RaceOracles :
        \E replies \in [Delegated(body.answers) -> LLMReplies] :
            /\ SubmitRound(request.session_id, request.seen,
                           body.answers, body.time_spent, replies, o)
            /\ call' = SubmitCall(request.session_id, body, replies, o)
            /\ inflight' = inflight \ {request}

RaceNext == Start \/ ReceiveSubmit \/ HandleSubmit

SpecRace == Init /\ [][RaceNext]_vars

(***************************************************************************)
(* Specification SpecBuild: _generate_unique_round_questions pass by pass. *)
(* call holds the arguments of one run (the round, the session's recorded  *)
(* hashes, the collaborator's behaviour), response the loop's variables   *)
(* and the place the run has reached.  Every _call_deepseek returns: the   *)
(* request carries timeout=30 and every exception ends in return "", so    *)
(* the thread that runs the builder always takes its next step.            *)
(***************************************************************************)
BuildOracles ==
    {[kind |-> "down", base |-> 0], [kind |-> "null", base |-> 0],
     [kind |-> "fresh", base |-> FirstReplyText],
     [kind |-> "stuck", base |-> FirstReplyText],
     [kind |-> "flaky", base |-> FirstReplyText]}

\* what the session has recorded when the run begins
BuildHashes ==
    {<<>>, <<QuestionHash(EmptyText)>>,
     <<QuestionHash(EmptyText), QuestionHash(DefaultSnippetText),
       QuestionHash(FirstReplyText)>>}

InitBuild ==
    /\ active_sessions = NoSessions
    /\ question_history = NoSessions
    /\ inflight = {}
    /\ race_log = NoSessions
    /\ \E round_num \in DOMAIN ROUND_SETTINGS, role \in Roles, level \in Levels,
          o \in BuildOracles, hashes \in BuildHashes :
          /\ call = [op |-> "build", round_num |-> round_num, role |-> role,
                     level |-> level, o |-> o, hashes |-> hashes]
          /\ response = [kind |-> "loop", session_id |-> 0, questions |-> <<>>,
                         hashes |-> hashes, attempts |-> 0]

\* line 60: the while condition
LoopCondition(round_num, st) ==
    /\ Len(st.questions) < ROUND_SETTINGS[round_num].total_questions
    /\ st.attempts < MaxAttempts(round_num)

\* lines 60-77: one pass of the while loop
LoopStep ==
    /\ response.kind = "loop"
    /\ LoopCondition(call.round_num, response)
    /\ LET st == LoopPass(call.round_num, call.role, call.level, call.o,
                          [questions |-> response.questions,
                           hashes |-> response.hashes,
                           attempts |-> response.attempts])
       IN  response' = [response EXCEPT !.questions = st.questions,
                                        !.hashes = st.hashes,
                                        !.attempts = st.attempts]
    /\ UNCHANGED <<active_sessions, question_history, inflight, call, race_log>>

\* line 60: the while condition is false
LoopExit ==
    /\ response.kind = "loop"
    /\ ~LoopCondition(call.round_num, response)
    /\ response' = [response EXCEPT !.kind = "pad"]
    /\ UNCHANGED <<active_sessions, question_history, inflight, call, race_log>>

\* lines 80-86: the padding loop over range(needed), and return questions
PadAndReturn ==
    /\ response.kind = "pad"
    /\ response' = [response EXCEPT
                       !.kind = "built",
                       !.questions = PadQuestions(call.round_num, call.role, call.level,
                                                  call.o, response.questions)]
    /\ UNCHANGED <<active_sessions, question_history, inflight, call, race_log>>

BuildNext == LoopStep \/ LoopExit \/ PadAndReturn

SpecBuild == InitBuild /\ [][BuildNext]_vars /\ WF_vars(BuildNext)

(***************************************************************************)
(* Properties.                                                             *)
(***************************************************************************)
Known == DOMAIN active_sessions

History(sid) == active_sessions[sid].completed_rounds

\* a step of session sid that appended one RoundResult
Recorded(sid) ==
    /\ sid \in Known
    /\ Len(active_sessions'[sid].completed_rounds) = Len(History(sid)) + 1

LastRecorded(sid) ==
    active_sessions'[sid].completed_rounds[Len(active_sessions'[sid].completed_rounds)]

\* C1: a submitRound on a session whose completion flag is set fails with
\* SessionAlreadyComplete: it appends no RoundResult, leaves current_round and
\* the completion flag as they are, generates no questions, and does not
\* answer with the outcome of an evaluation.
C1_CompleteSessionRejectsSubmit ==
    [][\A sid \in Known :
          active_sessions[sid].is_complete =>
              /\ active_sessions'[sid] = active_sessions[sid]
              /\ question_history'[sid] = question_history[sid]
              /\ (response' # response /\ response'.session_id = sid
                      => response'.kind \notin {"failed", "completed", "next_round"})]_vars

\* C2: submitRound calls racing on one session (both sent while the session
\* had the same number of recorded rounds) are never both recorded for the
\* same round, and never both advance current_round.
C2_RacingSubmissionsRecordedOnce ==
    \A sid \in Known :
        \A i, j \in 1..Len(History(sid)) :
            (i < j /\ race_log[sid][i] = race_log[sid][j]) =>
                /\ History(sid)[i].round_number # History(sid)[j].round_number
                /\ ~(/\ History(sid)[i].passed /\ History(sid)[i].round_number < LastRound
                     /\ History(sid)[j].passed /\ History(sid)[j].round_number < LastRound)

\* C3: a session's completion flag is set if and only if its history holds a
\* RoundResult that did not pass or a passed RoundResult of round 3.
C3_CompleteIffFailedOrPassedLast ==
    \A sid \in Known :
        active_sessions[sid].is_complete <=>
            \E i \in 1..Len(History(sid)) :
                \/ ~History(sid)[i].passed
                \/ History(sid)[i].round_number = 3 /\ History(sid)[i].passed

C3_Witness ==
    \E sid \in Known :
        /\ active_sessions[sid].is_complete
        /\ Len(History(sid)) = 3
        /\ \A i \in 1..3 : History(sid)[i].passed /\ History(sid)[i].round_number = i

\* C4: in every step current_round of every session stays the same or grows
\* by exactly 1, and it grows only in a step that records a passed round.
C4_RoundAdvancesByOneAfterPass ==
    [][\A sid \in Known :
          \/ active_sessions'[sid].current_round = active_sessions[sid].current_round
          \/ /\ active_sessions'[sid].current_round
                    = active_sessions[sid].current_round + 1
             /\ Recorded(sid)
             /\ LastRecorded(sid).passed
             /\ LastRecorded(sid).round_number = active_sessions[sid].current_round]_vars

C4_Witness ==
    \E sid \in Known :
        /\ active_sessions[sid].current_round = 3
        /\ Len(History(sid)) >= 2
        /\ response.kind = "next_round"

\* C5: current_round of every session is 1, 2 or 3, and so is the
\* round_number of every RoundResult: a configured round.
C5_RoundNumberConfigured ==
    \A sid \in Known :
        /\ active_sessions[sid].current_round \in {1, 2, 3}
        /\ active_sessions[sid].current_round \in DOMAIN ROUND_SETTINGS
        /\ \A i \in 1..Len(History(sid)) : History(sid)[i].round_number \in {1, 2, 3}

C5_Witness ==
    \E sid \in Known :
        /\ active_sessions[sid].current_round = 3
        /\ Len(History(sid)) = MaxRecords
        /\ History(sid)[Len(History(sid))].round_number = 3

\* C6: the question set returned by start has 20 questions, and the one
\* returned by an advancing submitRound has 15 for round 2 and 3 for round 3.
ConfiguredCount(round_num) ==
    CASE round_num = 1 -> 20 [] round_num = 2 -> 15 [] round_num = 3 -> 3

C6_QuestionSetHasConfiguredCount ==
    /\ response.kind = "started" =>
           /\ Len(response.questions) = ConfiguredCount(1)
           /\ response.total_questions = ConfiguredCount(1)
    /\ response.kind = "next_round" =>
           Len(response.questions) = ConfiguredCount(response.current_round)

\* a round-2 set built with the collaborator down: the whole budget of 45 calls
\* is spent and all but one question is padding
C6_Witness ==
    /\ response.kind = "next_round"
    /\ response.current_round = 2
    /\ Cardinality({i \in 1..Len(response.questions) : response.questions[i].padding})
           = 14
    /\ response.attempts = 45

\* C7: the hashes recorded for a session are pairwise different, and the
\* questions a returned set accepted from the synthesizer are, in order, the
\* ones whose hashes were recorded last: no accepted question repeats a hash
\* of its own round or of an earlier one.
AcceptedHashes(questions) ==
    LET accepted == SelectSeq(questions, LAMBDA q : ~q.padding)
    IN  [i \in 1..Len(accepted) |-> QuestionHash(accepted[i].text)]

C7_AcceptedHashesUnique ==
    /\ \A sid \in Known :
           \A i, j \in 1..Len(question_history[sid]) :
               i # j => question_history[sid][i] # question_history[sid][j]
    /\ response.kind \in {"started", "next_round"} =>
           LET recorded == question_history[response.session_id]
               accepted == AcceptedHashes(response.questions)
           IN  /\ Len(accepted) <= Len(recorded)
               /\ accepted = SubSeq(recorded, Len(recorded) - Len(accepted) + 1,
                                    Len(recorded))

\* round 2 built from replies that repeat the 20 questions of round 1
C7_Witness ==
    /\ response.kind = "next_round"
    /\ response.current_round = 2
    /\ response.attempts = 35
    /\ \A i \in 1..Len(response.questions) : ~response.questions[i].padding
    /\ Len(question_history[response.session_id]) = 35

\* C8: a round whose score is at least the passing score of its round, and
\* so one whose score equals it, is recorded as passed and is not answered
\* with status failed.
C8_PassingScoreInclusive ==
    /\ \A sid \in Known :
           \A i \in 1..Len(History(sid)) :
               History(sid)[i].score
                       >= 100 * ROUND_SETTINGS[History(sid)[i].round_number].passing_score
                   => History(sid)[i].passed
    /\ response.kind = "failed" => response.score < response.passing_score

C8_Witness ==
    \E sid \in Known :
        /\ Len(History(sid)) = 1
        /\ History(sid)[1].round_number = 1
        /\ History(sid)[1].score = 7000
        /\ History(sid)[1].passed
        /\ ~active_sessions[sid].is_complete
        /\ response.kind = "next_round"

\* C9: a submitRound on a session that is not complete which records a round
\* below the passing score sets the completion flag, leaves current_round and
\* the recorded hashes as they are, and answers failed with the score, the
\* round's passing score, and a Feedback made of the failed round alone.
C9_FailedRound ==
    [][\A sid \in Known :
          (/\ ~active_sessions[sid].is_complete
           /\ Recorded(sid)
           /\ LastRecorded(sid).score
                  < 100 * ROUND_SETTINGS[active_sessions[sid].current_round].passing_score)
          => /\ active_sessions'[sid].is_complete
             /\ ~LastRecorded(sid).passed
             /\ active_sessions'[sid].current_round = active_sessions[sid].current_round
             /\ question_history'[sid] = question_history[sid]
             /\ response'.kind = "failed"
             /\ response'.score = LastRecorded(sid).score
             /\ response'.passing_score
                    = 100 * ROUND_SETTINGS[active_sessions[sid].current_round].passing_score
             /\ response'.feedback.score = LastRecorded(sid).score
             /\ response'.feedback.strongest_topics
                    = StrongestTopics(LastRecorded(sid).questions)
             /\ response'.feedback.weakest_topics
                    = WeakestTopics(LastRecorded(sid).questions)
             /\ response'.feedback.time_spent
                    = (active_sessions[sid].current_round :> LastRecorded(sid).time_spent)]_vars

\* round 2 failed after round 1 was passed on other topics
C9_Witness ==
    \E sid \in Known :
        /\ response.kind = "failed"
        /\ response.session_id = sid
        /\ response.round = 2
        /\ Len(History(sid)) = 2
        /\ History(sid)[1].passed
        /\ History(sid)[1].questions # <<>>
        /\ History(sid)[2].questions # <<>>
        /\ active_sessions[sid].is_complete

\* C10: a submitRound on a session that is not complete and at round 3 which
\* records a passed round sets the completion flag, leaves current_round at 3
\* and the recorded hashes as they are, and answers completed with a Feedback
\* over the whole history: its time-spent map has one entry per recorded
\* round and a total entry that is their sum.
RECURSIVE TimeSum(_, _)
TimeSum(rounds, n) == IF n = 0 THEN 0 ELSE rounds[n].time_spent + TimeSum(rounds, n - 1)

C10_CompletedInterview ==
    [][\A sid \in Known :
          (/\ ~active_sessions[sid].is_complete
           /\ active_sessions[sid].current_round = 3
           /\ Recorded(sid)
           /\ LastRecorded(sid).passed)
          => LET rounds == active_sessions'[sid].completed_rounds
             IN  /\ active_sessions'[sid].is_complete
                 /\ active_sessions'[sid].current_round = 3
                 /\ question_history'[sid] = question_history[sid]
                 /\ response'.kind = "completed"
                 /\ response'.score = LastRecorded(sid).score
                 /\ DOMAIN response'.feedback.time_spent = 0..Len(rounds)
                 /\ \A k \in 1..Len(rounds) :
                        response'.feedback.time_spent[k] = rounds[k].time_spent
                 /\ response'.feedback.time_spent[TotalKey] = TimeSum(rounds, Len(rounds))
                 /\ response'.feedback.strongest_topics
                        = StrongestTopics(AllQuestions(rounds))
                 /\ response'.feedback.weakest_topics
                        = WeakestTopics(AllQuestions(rounds))]_vars

C10_Witness ==
    \E sid \in Known :
        /\ response.kind = "completed"
        /\ response.session_id = sid
        /\ Len(History(sid)) = 3
        /\ \A i \in 1..3 : History(sid)[i].passed
        /\ History(sid)[1].time_spent # History(sid)[3].time_spent
        /\ active_sessions[sid].is_complete

(***************************************************************************)
(* Specification SpecMany: several sessions in one engine.  At most        *)
(* MaxSessionsMany sessions are started, and MaxRecordsMany rounds are     *)
(* recorded over all of them.                                              *)
(***************************************************************************)
RecordedRounds ==
    LET RECURSIVE Sum(_)
        Sum(ids) == IF ids = {} THEN 0
                    ELSE LET id == CHOOSE x \in ids : TRUE
                         IN  Len(active_sessions[id].completed_rounds) + Sum(ids \ {id})
    IN  Sum(DOMAIN active_sessions)

StartMany ==
    \E role \in Roles, level \in Levels, o \in Oracles :
        /\ Cardinality(DOMAIN active_sessions) < MaxSessionsMany
        /\ StartInterview(role, level, o)
        /\ call' = StartCall(role, level, o)
        /\ UNCHANGED inflight

SubmitMany ==
    \E session_id \in DOMAIN active_sessions, body \in RaceSubmissions,
       o \in RaceOracles :
        /\ RecordedRounds < MaxRecordsMany
        /\ SubmitRound(session_id, Len(active_sessions[session_id].completed_rounds),
                       body.answers, body.time_spent, <<>>, o)
        /\ call' = SubmitCall(session_id, body, <<>>, o)
        /\ UNCHANGED inflight

StatusMany ==
    \E session_id \in 1..MaxSessionsMany :
        /\ GetSessionStatus(session_id)
        /\ call' = StatusCall(session_id)
        /\ UNCHANGED inflight

ManyNext == StartMany \/ SubmitMany \/ StatusMany

SpecMany == Init /\ [][ManyNext]_vars

(***************************************************************************)
(* Specification SpecEval: the evaluation submit_round applies to one      *)
(* answer (_evaluate_with_llm_if_needed), on drawn questions, answers and  *)
(* collaborator replies.  The engine holds no session.                     *)
(***************************************************************************)
ReferenceAnswers ==
    {<<>>, <<" ">>, <<"b">>, <<"a", " ", "b">>,
     <<"a", " ", " ", "b", "\n", "c">>,
     <<"a", " ", "b", " ", "c", " ", "d", " ", "e", " ", "f">>}

UserAnswers ==
    {<<>>, <<" ">>, <<"\t", "\n">>, <<" ", "B">>, <<"a", "\n", "b">>, LongAnswer,
     <<"a", "b", " ", "c">>, <<"a", " ", "b", " ", "d">>, <<"a", " ", "b", " ", "c">>}

Evaluate ==
    \E type \in QuestionType, correct_answer \in ReferenceAnswers,
       user_answer \in UserAnswers, reply \in LLMReplies :
        LET q == [type |-> type, topic |-> "Algorithms",
                  correct_answer |-> correct_answer, user_answer |-> user_answer]
        IN  /\ call' = [op |-> "evaluate", question |-> q, reply |-> reply]
            /\ response' = [kind |-> "verdict", session_id |-> 0,
                            is_correct |-> EvaluateWithLLM(q, user_answer, reply)]
            /\ UNCHANGED <<active_sessions, question_history, inflight, race_log>>

EvalNext == Evaluate

SpecEval == Init /\ [][EvalNext]_vars

(***************************************************************************)
(* The scoring functions of evaluation.py alone: calculate_round_score on  *)
(* a list of evaluated questions, then generate_feedback in failure mode   *)
(* when the score is below the passing score of round 1 or 2.              *)
(***************************************************************************)
MaxScored == 4

ScoredTopics == SubSeq(ROLE_TOPICS["Software Engineer"]["entry"], 1, 4)

ScoredQuestion ==
    {[topic |-> ScoredTopics[t], is_correct |-> v] : t \in 1..Len(ScoredTopics), v \in BOOLEAN}

ScoredRounds == UNION {[1..n -> ScoredQuestion] : n \in 0..MaxScored}

InitScore ==
    /\ active_sessions = NoSessions
    /\ question_history = NoSessions
    /\ inflight = {}
    /\ response = [kind |-> "none", session_id |-> 0]
    /\ call \in {[op |-> "score", questions |-> questions] : questions \in ScoredRounds}
    /\ race_log = NoSessions

ScoreRound ==
    /\ response.kind = "none"
    /\ response' = [kind |-> "scored", session_id |-> 0,
                    results |-> CalculateRoundScore(call.questions)]
    /\ UNCHANGED <<active_sessions, question_history, inflight, call, race_log>>

FailRound ==
    /\ response.kind = "scored"
    /\ \E failed_round \in {1, 2} :
          LET result == MakeRoundResult(failed_round, call.questions, 0)
          IN  /\ ~result.passed
              /\ response' = [kind |-> "feedback", session_id |-> 0,
                              feedback |-> FailureFeedback(<<result>>, failed_round)]
    /\ UNCHANGED <<active_sessions, question_history, inflight, call, race_log>>

ScoreNext == ScoreRound \/ FailRound

SpecScore == InitScore /\ [][ScoreNext]_vars

(***************************************************************************)
(* The served request of a step, read from the history variable call.      *)
(***************************************************************************)
\* the step is the handler run of a request op (a run that repeats the last
\* request and changes nothing is a stuttering step of the engine)
Served(op) ==
    /\ call'.op = op
    /\ ~UNCHANGED <<active_sessions, question_history, response, call, race_log>>

\* the step served a submit_round that appended a RoundResult to session sid
Appended(sid) ==
    /\ Served("submit") /\ call'.session_id = sid
    /\ sid \in Known
    /\ Len(active_sessions'[sid].completed_rounds) = Len(History(sid)) + 1

NewResult(sid) == active_sessions'[sid].completed_rounds[Len(History(sid)) + 1]

\* C11: a submitRound on a session that is not complete and at round 1 or 2
\* which records a passed round leaves the session not complete, raises
\* current_round by one, and returns status next_round with the new
\* current_round, the score of the submitted round, and the question set
\* built for the new round from the session's hash record.
C11_PassedRoundAdvances ==
    [][\A sid \in Known :
          (/\ Appended(sid)
           /\ ~active_sessions[sid].is_complete
           /\ active_sessions[sid].current_round \in {1, 2}
           /\ NewResult(sid).passed)
          => LET old == active_sessions[sid]
                 new == active_sessions'[sid]
                 built == GenerateUniqueRoundQuestions(
                              old.current_round + 1, old.target_role,
                              old.experience_level, question_history[sid], call'.o)
             IN  /\ ~new.is_complete
                 /\ new.current_round = old.current_round + 1
                 /\ response'.kind = "next_round"
                 /\ response'.session_id = sid
                 /\ response'.current_round = new.current_round
                 /\ response'.previous_score = NewResult(sid).score
                 /\ call'.o \in Oracles
                 /\ response'.questions = built.questions
                 /\ Len(response'.questions) = ConfiguredCount(new.current_round)
                 /\ question_history'[sid] = built.hashes]_vars

\* a session that passed round 1 at 70, then round 2 at 100, and is at round 3
C11_Witness ==
    \E sid \in Known :
        /\ call.op = "submit" /\ call.session_id = sid
        /\ response.kind = "next_round"
        /\ response.current_round = 3
        /\ response.previous_score = 10000
        /\ Len(History(sid)) = 2
        /\ History(sid)[1].score = 7000
        /\ ~active_sessions[sid].is_complete

\* C12: a submitRound served while the session's current_round is 3 never
\* returns status failed, and the round it records is a passed one whatever
\* its score: the session is complete afterwards with no failed round added,
\* and the result is status completed.
C12_LastRoundNeverFails ==
    [][\A sid \in Known :
          (/\ Served("submit") /\ call'.session_id = sid
           /\ active_sessions[sid].current_round = LastRound)
          => /\ response'.kind # "failed"
             /\ Appended(sid) =>
                    /\ NewResult(sid).passed
                    /\ NewResult(sid).round_number = LastRound
                    /\ active_sessions'[sid].is_complete
                    /\ active_sessions'[sid].current_round = LastRound
                    /\ response'.kind = "completed"]_vars

\* round 3 submitted with an empty answer list: score 0, and completed
C12_Witness ==
    \E sid \in Known :
        /\ call.op = "submit" /\ call.session_id = sid /\ call.answers = <<>>
        /\ response.kind = "completed"
        /\ Len(History(sid)) = LastRound
        /\ History(sid)[LastRound].round_number = LastRound
        /\ History(sid)[LastRound].score = 0
        /\ History(sid)[LastRound].total_questions = 0
        /\ History(sid)[LastRound].passed
        /\ \A i \in 1..Len(History(sid)) : History(sid)[i].passed

\* C13: submitRound and status called with a session id that start never
\* returned answer "Session not found", create no session, and leave every
\* session's current_round, history, completion flag and hash record as
\* they were.
C13_UnknownSessionNotFound ==
    [][\A id \in SessionIds :
          (/\ Served("submit") \/ Served("status")
           /\ call'.session_id = id
           /\ id \notin Known)
          => /\ response'.kind = "not_found"
             /\ response'.session_id = id
             /\ DOMAIN active_sessions' = Known
             /\ active_sessions' = active_sessions
             /\ question_history' = question_history]_vars

\* a submitRound for an unknown id, answered while a session with a recorded
\* round exists
C13_Witness ==
    /\ call.op = "submit"
    /\ call.session_id \notin Known
    /\ response.kind = "not_found"
    /\ \E sid \in Known : History(sid) # <<>> /\ question_history[sid] # <<>>

\* C14: status changes nothing (the session store, every session's
\* current_round, history and completion flag, and the hash records are the
\* same before and after), and for a known id it reports the stored
\* current_round, completion flag and history length.
C14_StatusIsPureRead ==
    [][Served("status")
          => /\ active_sessions' = active_sessions
             /\ question_history' = question_history
             /\ call'.session_id \in Known
                    => LET session == active_sessions[call'.session_id]
                       IN  /\ response'.kind = "status"
                           /\ response'.session_id = call'.session_id
                           /\ response'.current_round = session.current_round
                           /\ response'.is_complete = session.is_complete
                           /\ response'.completed_rounds
                                  = Len(session.completed_rounds)]_vars

\* status of a complete session at round 2 with two recorded rounds
C14_Witness ==
    /\ call.op = "status"
    /\ call.session_id \in Known
    /\ response.kind = "status"
    /\ response.current_round = 2
    /\ response.is_complete
    /\ response.completed_rounds = 2
    /\ Len(History(call.session_id)) = 2

\* the reply to a scoring prompt is a failure: no reply at all (transport
\* error, timeout, bad status, empty text) or a text that is no integer
FailedDelegation(reply) == ~IntParses(Strip(reply))

\* Question(...) in submit_round accepts the answer
WellFormed(answer) == answer.type \in QuestionType /\ answer.topic # None

\* C15: whatever the collaborator does while a submitRound with well-formed
\* answers is served, the call returns failed, completed or next_round, the
\* RoundResult it appends covers every submitted question with a boolean
\* verdict, and a question whose delegation failed has the verdict of the
\* local policy.
C15_CollaboratorFailuresAbsorbed ==
    [][\A sid \in Known :
          (/\ Served("submit") /\ call'.session_id = sid
           /\ \A i \in 1..Len(call'.answers) : WellFormed(call'.answers[i]))
          => /\ response'.kind \in {"failed", "completed", "next_round"}
             /\ Appended(sid)
             /\ Len(NewResult(sid).questions) = Len(call'.answers)
             /\ NewResult(sid).total_questions = Len(call'.answers)
             /\ \A i \in 1..Len(call'.answers) :
                    LET q == NewResult(sid).questions[i]
                        a == call'.answers[i]
                    IN  /\ q.is_correct \in BOOLEAN
                        /\ q.type = a.type /\ q.user_answer = a.user_answer
                        /\ (i \in DOMAIN call'.replies
                               /\ FailedDelegation(call'.replies[i]))
                              => q.is_correct = EvaluateAnswer(a, a.user_answer)]_vars

\* the collaborator gave no reply for the theory answer: the local policy
\* judged it correct, and the two other answers were judged as well
C15_Witness ==
    \E sid \in Known :
        /\ call.op = "submit" /\ call.session_id = sid
        /\ response.kind \in {"failed", "completed", "next_round"}
        /\ call.answers = MixedSheet
        /\ call.replies[1] = <<>>
        /\ History(sid)[Len(History(sid))].questions[1].type = "theory"
        /\ History(sid)[Len(History(sid))].questions[1].is_correct
        /\ Len(History(sid)[Len(History(sid))].questions) = 3

\* C16: when building a Question from one of the submitted answers raises,
\* the submission fails as a whole (app.py answers HTTP 500) and the session
\* is as before the call: no RoundResult appended, current_round, the
\* completion flag and the hash record unchanged.
C16_RaisingSubmissionIsAtomic ==
    [][\A sid \in Known :
          (/\ Served("submit") /\ call'.session_id = sid
           /\ \E i \in 1..Len(call'.answers) : ~WellFormed(call'.answers[i]))
          => /\ response'.kind = "http_500"
             /\ response'.session_id = sid
             /\ active_sessions' = active_sessions
             /\ question_history' = question_history]_vars

\* a submission whose second answer has no topic, refused on a session that
\* passed round 1: the first answer had been evaluated, nothing was recorded
C16_Witness ==
    \E sid \in Known :
        /\ call.op = "submit" /\ call.session_id = sid
        /\ call.answers = InvalidSheet
        /\ WellFormed(call.answers[1]) /\ ~WellFormed(call.answers[2])
        /\ response.kind = "http_500"
        /\ Len(History(sid)) = 1
        /\ active_sessions[sid].current_round = 2
        /\ ~active_sessions[sid].is_complete

\* the answer is empty or consists of whitespace only
Blank(answer) == Strip(answer) = <<>>

\* C17: for every question type, every reference answer (the empty one
\* included) and every collaborator reply, an answer that is empty or
\* consists only of whitespace is judged incorrect by the evaluation that
\* submit_round applies.
C17_BlankAnswerIncorrect ==
    (call.op = "evaluate" /\ Blank(call.question.user_answer))
        => ~response.is_correct

\* the questions of a returned set that came from the synthesizer, and the
\* ones _generate_fallback_question padded it with
AcceptedCount(questions) ==
    Cardinality({i \in 1..Len(questions) : ~questions[i].padding})

PaddedCount(questions) ==
    Cardinality({i \in 1..Len(questions) : questions[i].padding})

\* C18: building a round's question set makes at most 3 x targetCount
\* synthesizer calls for the whole round; it stops calling with the call
\* whose question is the targetCount-th accepted one; when the budget runs
\* out it pads with exactly targetCount minus accepted fallback questions,
\* placed after the accepted ones; and the hash record grows by the accepted
\* questions only.
C18_AttemptBudgetAndPadding ==
    [][(/\ Served("start") \/ Served("submit")
        /\ response'.kind \in {"started", "next_round"})
       => LET sid == response'.session_id
              round_num == response'.current_round
              target == ConfiguredCount(round_num)
              questions == response'.questions
              accepted == AcceptedCount(questions)
              attempts == response'.attempts
              before == IF response'.kind = "started" THEN <<>>
                        ELSE question_history[sid]
              session == active_sessions'[sid]
          IN  /\ attempts <= 3 * target
              /\ accepted <= attempts
              /\ accepted <= target
              /\ accepted < target => attempts = 3 * target
              /\ PaddedCount(questions) = target - accepted
              /\ \A i \in 1..Len(questions) : questions[i].padding <=> i > accepted
              /\ \A i \in 1..Len(questions) :
                     questions[i].padding => questions[i].id_prefix = "fb"
              /\ accepted = target =>
                     questions[target].text =
                         GenerateQuestion(
                             OracleChoice(RoundTypes(round_num), attempts - 1),
                             OracleChoice(TopicsFor(session.target_role,
                                                    session.experience_level),
                                          attempts - 1),
                             OracleReply(call'.o, attempts - 1)).text
              /\ Len(question_history'[sid]) = Len(before) + accepted
              /\ SubSeq(question_history'[sid], 1, Len(before)) = before]_vars

\* round 1 built with the collaborator down: 60 calls, one question
\* accepted, 19 padded, two of them with the same text, one hash recorded
C18_Witness ==
    /\ call.op = "start"
    /\ response.kind = "started"
    /\ response.attempts = 60
    /\ AcceptedCount(response.questions) = 1
    /\ PaddedCount(response.questions) = 19
    /\ \E i, j \in 1..Len(response.questions) :
           /\ i < j
           /\ response.questions[i].padding /\ response.questions[j].padding
           /\ response.questions[i].text = response.questions[j].text
    /\ Len(question_history[response.session_id]) = 1

\* C19: when the call to the generation collaborator fails, the question
\* the synthesizer returns is one of the fallback templates, never one
\* built from the failed (empty) reply: a question set built while every
\* call failed holds template questions only.
C19_FailedGenerationYieldsTemplate ==
    (/\ call.op \in {"start", "submit"}
     /\ response.kind \in {"started", "next_round"}
     /\ call.o.kind = "down")
    => \A i \in 1..Len(response.questions) :
           LET q == response.questions[i]
           IN  /\ q.id_prefix = "fb"
               /\ q.text = FallbackText(q.type, q.topic)
               /\ q.text # EmptyText

\* C20: start(role, level) adds exactly one session, under an id no session
\* had, with current_round 1, the completion flag unset and an empty
\* history; it returns that id with current_round 1 and the round-1 question
\* set (built against an empty hash record); and it leaves every session
\* that existed, and its hash record, as it was.
C20_StartAddsOneSession ==
    [][Served("start")
          => LET id == response'.session_id
             IN  /\ response'.kind = "started"
                 /\ id \notin Known
                 /\ DOMAIN active_sessions' = Known \cup {id}
                 /\ DOMAIN question_history' = DOMAIN question_history \cup {id}
                 /\ active_sessions'[id].current_round = 1
                 /\ ~active_sessions'[id].is_complete
                 /\ active_sessions'[id].completed_rounds = <<>>
                 /\ active_sessions'[id].target_role = call'.target_role
                 /\ active_sessions'[id].experience_level = call'.experience_level
                 /\ response'.current_round = 1
                 /\ Len(response'.questions) = ConfiguredCount(1)
                 /\ LET built == GenerateUniqueRoundQuestions(
                                     1, call'.target_role, call'.experience_level,
                                     <<>>, call'.o)
                    IN  /\ response'.questions = built.questions
                        /\ question_history'[id] = built.hashes
                 /\ \A sid \in Known :
                        /\ active_sessions'[sid] = active_sessions[sid]
                        /\ question_history'[sid] = question_history[sid]]_vars

\* a second session started next to one that has passed round 1
C20_Witness ==
    /\ call.op = "start"
    /\ response.kind = "started"
    /\ Cardinality(Known) = 2
    /\ \E sid \in Known :
           /\ sid # response.session_id
           /\ Len(History(sid)) = 1
           /\ active_sessions[sid].current_round = 2
           /\ question_history[sid] # question_history[response.session_id]
    /\ History(response.session_id) = <<>>
    /\ active_sessions[response.session_id].current_round = 1

\* sums over the first n rounds of a history
RECURSIVE ScoreTimesCountSum(_, _)
ScoreTimesCountSum(rounds, n) ==
    IF n = 0 THEN 0
    ELSE rounds[n].score * rounds[n].total_questions + ScoreTimesCountSum(rounds, n - 1)

RECURSIVE CountSum(_, _)
CountSum(rounds, n) ==
    IF n = 0 THEN 0 ELSE rounds[n].total_questions + CountSum(rounds, n - 1)

RECURSIVE ScoreSum(_, _)
ScoreSum(rounds, n) ==
    IF n = 0 THEN 0 ELSE rounds[n].score + ScoreSum(rounds, n - 1)

\* s is num / den rounded to the nearest integer (s, num in hundredths)
IsRounded(s, num, den) == 2 * (s * den - num) <= den /\ 2 * (num - s * den) <= den

\* C21: the score of the Feedback returned with status completed is the
\* average of the recorded round scores weighted by the rounds' question
\* counts, sum(score x count) / sum(count), rounded to 2 decimals.
C21_OverallScoreIsWeighted ==
    (call.op = "submit" /\ response.kind = "completed")
    => LET rounds == History(response.session_id)
           n == Len(rounds)
       IN  /\ CountSum(rounds, n) > 0
           /\ IsRounded(response.feedback.score,
                        ScoreTimesCountSum(rounds, n), CountSum(rounds, n))

\* rounds of 70 over 10 questions, 100 over 3 and 66.67 over 3: the overall
\* score is 75.00, and the plain mean of the three scores (78.89) is not
C21_Witness ==
    /\ call.op = "submit" /\ response.kind = "completed"
    /\ LET rounds == History(response.session_id)
       IN  /\ Len(rounds) = 3
           /\ rounds[1].score = 7000 /\ rounds[1].total_questions = 10
           /\ rounds[2].score = 10000 /\ rounds[2].total_questions = 3
           /\ rounds[3].score = 6667 /\ rounds[3].total_questions = 3
           /\ response.feedback.score = 7500
           /\ ~IsRounded(response.feedback.score, ScoreSum(rounds, 3), 3)

VerdictTrueCount(r) ==
    Cardinality({k \in 1..Len(r.questions) : r.questions[k].is_correct = TRUE})

\* C22: every recorded round score is 100 x correctCount / totalCount rounded
\* to 2 decimals, is 0 when no question was submitted, and lies in 0..100;
\* correctCount counts the questions whose verdict is true and totalCount
\* the submitted questions.
C22_RoundScoreIsPercentage ==
    \A sid \in Known : \A i \in 1..Len(History(sid)) :
        LET r == History(sid)[i]
            total == Len(r.questions)
        IN  /\ r.score >= 0 /\ r.score <= 10000
            /\ r.total_questions = total
            /\ r.correct_answers = VerdictTrueCount(r)
            /\ total = 0 => r.score = 0
            /\ total > 0 => IsRounded(r.score, 10000 * VerdictTrueCount(r), total)

\* one session holds a round of 7 correct of 10 scored 70.00, a round of 2
\* correct of 3 scored 66.67 and a round without questions scored 0
C22_Witness ==
    \E sid \in Known : \E i, j, k \in 1..Len(History(sid)) :
        LET rounds == History(sid)
        IN  /\ Len(rounds[i].questions) = 10 /\ VerdictTrueCount(rounds[i]) = 7
            /\ rounds[i].score = 7000
            /\ Len(rounds[j].questions) = 3 /\ VerdictTrueCount(rounds[j]) = 2
            /\ rounds[j].score = 6667
            /\ Len(rounds[k].questions) = 0 /\ rounds[k].score = 0

\* the collaborator's reply is a numeric score, and its value
NumericReply(reply) == IntParses(Strip(reply))

ReplyScore(reply) == IntValue(Strip(reply))

\* the first five words of a reference answer, and the words of an answer
ReferenceKeyTerms(reference) ==
    LET words == Split(Lower(reference))
    IN  {words[i] : i \in {k \in 1..Len(words) : k <= 5}}

AnswerWords(answer) ==
    LET words == Split(Lower(answer))
    IN  {words[i] : i \in 1..Len(words)}

\* C23: a theory question whose reference answer has no key term (an empty
\* reference answer) is judged incorrect by the evaluation submit_round
\* applies, for every user answer and every collaborator reply.
C23_NoKeyTermsTheoryIncorrect ==
    (/\ call.op = "evaluate"
     /\ call.question.type = "theory"
     /\ ReferenceKeyTerms(call.question.correct_answer) = {})
        => ~response.is_correct

\* the keyword heuristic: at least 0.6 of the key terms occur among the
\* words of the user answer, and never with zero key terms
KeywordHeuristic(reference, answer) ==
    LET key_terms == ReferenceKeyTerms(reference)
        found == key_terms \cap AnswerWords(answer)
    IN  /\ key_terms # {}
        /\ 10 * Cardinality(found) >= 6 * Cardinality(key_terms)

\* C24: for theory and code_snippet questions the verdict is (score >= 70)
\* whenever the collaborator returns a numeric score; when the delegation
\* fails or the reply is not numeric, the verdict is the keyword heuristic
\* over the first 5 words of the reference answer with ratio at least 0.6.
C24_DelegatedScoreElseKeywords ==
    (call.op = "evaluate" /\ call.question.type \in {"theory", "code_snippet"})
        => response.is_correct =
              IF NumericReply(call.reply)
              THEN ReplyScore(call.reply) >= 70
              ELSE KeywordHeuristic(call.question.correct_answer,
                                    call.question.user_answer)

\* the collaborator failed; the reference has six words and the answer
\* holds three of the first five: ratio 0.6 exactly, judged correct
C24_Witness ==
    /\ call.op = "evaluate"
    /\ call.question.type = "theory"
    /\ call.reply = <<>>
    /\ Len(Split(call.question.correct_answer)) = 6
    /\ Cardinality(ReferenceKeyTerms(call.question.correct_answer)
                      \cap AnswerWords(call.question.user_answer)) = 3
    /\ response.is_correct

\* the collaborator's single-word verdict is yes
SaysYes(reply) == Lower(Strip(reply)) = <<"y", "e", "s">>

\* C25: for one_word and fill_blank questions a case-insensitive exact
\* match is correct; when the exact match fails the verdict is the
\* collaborator's yes/no judgment: correct when it answers yes, incorrect
\* when it answers no or fails.
C25_ExactMatchElseDelegatedVerdict ==
    (call.op = "evaluate" /\ call.question.type \in {"one_word", "fill_blank"})
        => response.is_correct =
              (\/ Lower(Strip(call.question.user_answer))
                     = Lower(call.question.correct_answer)
               \/ SaysYes(call.reply))

NonWhitespace(s) == SelectSeq(s, LAMBDA c : c \notin {" ", "\t", "\n"})

\* C26: for output_prediction questions the verdict is true iff the user
\* answer and the reference answer are equal once all whitespace characters
\* are removed from both.
C26_OutputComparedWithoutWhitespace ==
    (call.op = "evaluate" /\ call.question.type = "output_prediction")
        => response.is_correct =
              (NonWhitespace(call.question.user_answer)
                 = NonWhitespace(call.question.correct_answer))

\* the reference "a  b\nc" against "ab c": judged correct although the
\* two differ in spaces and newlines
C26_Witness ==
    /\ call.op = "evaluate"
    /\ call.question.type = "output_prediction"
    /\ call.question.correct_answer = <<"a", " ", " ", "b", "\n", "c">>
    /\ call.question.user_answer = <<"a", "b", " ", "c">>
    /\ response.is_correct

\* the topic lists of the last scoring result or failure feedback
TopicLists ==
    IF response.kind = "scored" THEN response.results ELSE response.feedback

TopicsOf(questions) == {questions[i].topic : i \in 1..Len(questions)}

FirstEncounter(questions, t) ==
    CHOOSE i \in 1..Len(questions) :
        /\ questions[i].topic = t
        /\ \A j \in 1..(i - 1) : questions[j].topic # t

MoreAccurate(questions, a, b) ==
    TopicCorrect(questions, a) * TopicTotal(questions, b)
        > TopicCorrect(questions, b) * TopicTotal(questions, a)

SameAccuracy(questions, a, b) ==
    TopicCorrect(questions, a) * TopicTotal(questions, b)
        = TopicCorrect(questions, b) * TopicTotal(questions, a)

\* a comes before b: by accuracy, then by first encounter
RankedBefore(questions, a, b, descending) ==
    \/ IF descending THEN MoreAccurate(questions, a, b) ELSE MoreAccurate(questions, b, a)
    \/ /\ SameAccuracy(questions, a, b)
       /\ FirstEncounter(questions, a) < FirstEncounter(questions, b)

\* list holds the first 3 topics of the questions in that order
IsTopList(list, questions, descending) ==
    LET topics == TopicsOf(questions)
        listed == {list[i] : i \in 1..Len(list)}
    IN  /\ Len(list) = (IF Cardinality(topics) < 3 THEN Cardinality(topics) ELSE 3)
        /\ listed \subseteq topics
        /\ \A i, j \in 1..Len(list) :
              i < j => RankedBefore(questions, list[i], list[j], descending)
        /\ \A t \in topics \ listed : \A i \in 1..Len(list) :
              RankedBefore(questions, list[i], t, descending)

\* C27: the strongest and the weakest topic list each hold at most 3
\* distinct topics, the most accurate first and the least accurate first
\* respectively; among topics of equal accuracy the one first encountered
\* in the round's question order comes first, in both lists.
C27_TopicListsOrderedAndStable ==
    response.kind \in {"scored", "feedback"}
        => /\ IsTopList(TopicLists.strongest_topics, call.questions, TRUE)
           /\ IsTopList(TopicLists.weakest_topics, call.questions, FALSE)

\* failure feedback over four topics where the first two topics of each
\* list tie and stand in the order the questions met them
C27_Witness ==
    /\ response.kind = "feedback"
    /\ Cardinality(TopicsOf(call.questions)) = 4
    /\ LET strongest == response.feedback.strongest_topics
           weakest == response.feedback.weakest_topics
       IN  /\ Len(strongest) = 3 /\ Len(weakest) = 3
           /\ SameAccuracy(call.questions, strongest[1], strongest[2])
           /\ FirstEncounter(call.questions, strongest[1])
                 < FirstEncounter(call.questions, strongest[2])
           /\ SameAccuracy(call.questions, weakest[1], weakest[2])
           /\ FirstEncounter(call.questions, weakest[1])
                 < FirstEncounter(call.questions, weakest[2])

\* the recommendation lines about topic t
LinesAbout(recommendations, t) ==
    {i \in 1..Len(recommendations) : recommendations[i].topic = t}

\* the accuracy of topic t, in percent, is below pct
TopicUnder(questions, t, pct) ==
    100 * TopicCorrect(questions, t) < pct * TopicTotal(questions, t)

\* C28: in failure mode the recommendations hold, for each of the at most
\* 3 weakest topics and for no other topic, exactly one line: "focus on
\* fundamentals" if the topic's accuracy is below 50, "practice more" if it
\* is at least 50 and below 70, and no line if it is 70 or above; so there
\* are never more than 3 lines.
C28_FailureRecommendationsByAccuracy ==
    response.kind = "feedback"
        => LET recs == response.feedback.recommendations
               weakest == response.feedback.weakest_topics
               weak == {weakest[i] : i \in 1..Len(weakest)}
           IN  /\ Len(weakest) <= 3
               /\ Len(recs) <= 3
               /\ \A i \in 1..Len(recs) : recs[i].topic \in weak
               /\ \A t \in weak :
                     LET lines == LinesAbout(recs, t)
                     IN  IF TopicUnder(call.questions, t, 50)
                         THEN /\ Cardinality(lines) = 1
                              /\ \A i \in lines : recs[i].line = "focus_on_fundamentals"
                         ELSE IF TopicUnder(call.questions, t, 70)
                         THEN /\ Cardinality(lines) = 1
                              /\ \A i \in lines : recs[i].line = "practice_more_problems"
                         ELSE lines = {}

\* a failed round whose weakest topics are one below 50, one at exactly 50
\* and one at 100: two lines, one of each kind, none for the third topic
C28_Witness ==
    /\ response.kind = "feedback"
    /\ LET recs == response.feedback.recommendations
           weakest == response.feedback.weakest_topics
       IN  /\ Len(weakest) = 3 /\ Len(recs) = 2
           /\ TopicUnder(call.questions, weakest[1], 50)
           /\ 2 * TopicCorrect(call.questions, weakest[2])
                 = TopicTotal(call.questions, weakest[2])
           /\ ~TopicUnder(call.questions, weakest[3], 70)
           /\ recs[1] = [line |-> "focus_on_fundamentals", topic |-> weakest[1]]
           /\ recs[2] = [line |-> "practice_more_problems", topic |-> weakest[2]]

\* the session a served request names: the new one for a start
Target == IF call'.op = "start" THEN response'.session_id ELSE call'.session_id

\* C29: a start, submitRound or status on one session leaves every other
\* session's current_round, history, completion flag and recorded hashes as
\* they are, and the question set built for a session is the one its own
\* hash record yields: no question is rejected for a hash another session
\* recorded.
C29_SessionsAreIndependent ==
    [][/\ \A sid \in Known :
             Target # sid =>
                 /\ sid \in DOMAIN active_sessions'
                 /\ active_sessions'[sid] = active_sessions[sid]
                 /\ question_history'[sid] = question_history[sid]
       /\ (Served("submit") /\ response'.kind = "next_round") =>
             LET sid == call'.session_id
                 built == GenerateUniqueRoundQuestions(
                              response'.current_round,
                              active_sessions[sid].target_role,
                              active_sessions[sid].experience_level,
                              question_history[sid], call'.o)
             IN  /\ response'.questions = built.questions
                 /\ question_history'[sid] = built.hashes
       /\ Served("start") =>
             response'.questions
                 = GenerateUniqueRoundQuestions(
                       1, call'.target_role, call'.experience_level,
                       <<>>, call'.o).questions]_vars

\* a submitRound advanced one session and its new question set accepted a
\* question whose hash the other session had recorded
C29_Witness ==
    /\ call.op = "submit"
    /\ response.kind = "next_round"
    /\ \E other \in Known \ {call.session_id} :
          \E i \in 1..Len(response.questions) :
              /\ ~response.questions[i].padding
              /\ QuestionHash(response.questions[i].text)
                     \in SeqToSet(question_history[other])
              /\ QuestionHash(response.questions[i].text)
                     \in SeqToSet(question_history[call.session_id])

\* C30: a session is never removed: a stored session id stays in the
\* session store in every later state, so the known ids only grow, and a
\* status on a stored id never answers that the session was not found.
C30_SessionsNeverRemoved ==
    [][/\ Known \subseteq DOMAIN active_sessions'
       /\ DOMAIN question_history \subseteq DOMAIN question_history'
       /\ (Served("status") /\ call'.session_id \in Known)
             => response'.kind = "status"]_vars

\* the status of the first session is served after a second one was
\* started and after the first was completed by a failed round
C30_Witness ==
    /\ call.op = "status"
    /\ response.kind = "status"
    /\ Cardinality(Known) = 2
    /\ response.session_id = 1
    /\ response.is_complete
    /\ response.completed_rounds >= 1

\* C32: the completion flag is stable: once a session's completion flag is
\* true it is true in every later state, whatever start, submitRound or
\* status is served on any session.
C32_CompletionFlagStable ==
    [][\A sid \in Known :
          active_sessions[sid].is_complete
              => /\ sid \in DOMAIN active_sessions'
                 /\ active_sessions'[sid].is_complete]_vars

\* a session completed by a failed round took a further, passed round and a
\* second session was started: the flag is still set
C32_Witness ==
    \E sid \in Known :
        /\ active_sessions[sid].is_complete
        /\ Len(History(sid)) >= 2
        /\ ~History(sid)[1].passed
        /\ History(sid)[2].passed
        /\ Cardinality(Known) = 2

\* C33: the history is consistent with the round counter: a session that
\* is not complete has exactly current_round - 1 RoundResults, for rounds
\* 1..current_round - 1 in that order and all passed; a complete session has
\* exactly current_round RoundResults, for rounds 1..current_round in order,
\* of which only the last may be a failed one.
C33_HistoryMatchesRoundCounter ==
    \A sid \in Known :
        LET session == active_sessions[sid]
            rounds == History(sid)
        IN  IF ~session.is_complete
            THEN /\ Len(rounds) = session.current_round - 1
                 /\ \A i \in 1..Len(rounds) :
                        rounds[i].round_number = i /\ rounds[i].passed
            ELSE /\ Len(rounds) = session.current_round
                 /\ \A i \in 1..Len(rounds) :
                        /\ rounds[i].round_number = i
                        /\ i < Len(rounds) => rounds[i].passed

\* C34: a session's history holds at most 3 RoundResults and at most one
\* RoundResult per round number.
C34_OneResultPerRound ==
    \A sid \in Known :
        /\ Len(History(sid)) <= 3
        /\ \A i, j \in 1..Len(History(sid)) :
               i # j => History(sid)[i].round_number # History(sid)[j].round_number

\* C35: every recorded RoundResult has total_questions equal to the
\* configured question count of its round (20, 15 or 3), which covering
\* exactly the questions generated for that round requires: a submission
\* with fewer or more questions is never scored and recorded.
C35_RecordedRoundCoversQuestionSet ==
    \A sid \in Known : \A i \in 1..Len(History(sid)) :
        /\ History(sid)[i].total_questions = ConfiguredCount(History(sid)[i].round_number)
        /\ Len(History(sid)[i].questions) = ConfiguredCount(History(sid)[i].round_number)

\* C31: building a round's question set always terminates, also when every
\* collaborator call fails or times out and when every synthesized question
\* repeats a recorded one: every run of the builder, for the first round of
\* a start and for the next round of a submitRound, reaches its return.
C31_BuildTerminates ==
    (call.op = "build") ~> (response.kind = "built")

\* a round-2 build returned although every collaborator call failed and
\* every synthesized question repeated a recorded hash: the budget of 45
\* calls is spent and all 15 questions are padding
C31_Witness ==
    /\ call.op = "build"
    /\ call.o.kind = "down"
    /\ call.round_num = 2
    /\ response.kind = "built"
    /\ response.attempts = MaxAttempts(2)
    /\ response.hashes = call.hashes
    /\ Len(response.questions) = 15
    /\ \A i \in 1..15 : response.questions[i].padding
====
